---- MODULE Spec2Model ----
(***************************************************************************)
(* constrict: compress a video to a target size by repeated two-pass       *)
(* encodes.  The script is a single sequential process; pc is its position.*)
(* Python floats are modelled as exact rationals <<numerator, denominator>>*)
(* (denominator > 0) and round() as Python's round-half-to-even.           *)
(* External tools (ffprobe, ffmpeg, head, qt-faststart, the filesystem)    *)
(* are the environment: their answers are drawn from small sets.           *)
(***************************************************************************)
EXTENDS Integers, Sequences, FiniteSets, TLC

VARIABLES
    pc,                 \* position of the script
    exitStatus,         \* process exit status (-1 while running)
    exitMessage,        \* message given to sys.exit, "" if none
    argTolerance,       \* args.tolerance (NoArg when -t is omitted)
    argKeepFramerate,   \* args.keep_framerate
    tolerance,          \* percent
    targetSizeBytes,
    durationSeconds,
    fileHead,           \* the prefix read by is_streamable
    isInputStreamable,
    streamableExists,   \* the temporary streamable copy exists on disk
    beforeSizeBytes,
    outputFile,         \* what is stored at the fileOutput path
    encoderInvoked,     \* ffmpeg has been started at least once in this run
    audioBitrate,
    targetVideoBitrate, \* rational
    framerate,
    keepFramerate,
    targetFramerate,
    width,
    height,
    portrait,
    factor,             \* rational
    attempt,
    encArgs,            \* arguments of the last transcode() call
    afterSizeBytes,
    enc                 \* the encoder's size behaviour for this source

vars == <<pc, exitStatus, exitMessage, argTolerance, argKeepFramerate,
          tolerance, targetSizeBytes, durationSeconds, fileHead,
          isInputStreamable, streamableExists, beforeSizeBytes, outputFile,
          encoderInvoked, audioBitrate, targetVideoBitrate, framerate,
          keepFramerate, targetFramerate, width, height, portrait, factor,
          attempt, encArgs, afterSizeBytes, enc>>

----------------------------------------------------------------------------
(* Bounds of the model *)

MaxHeadLen == 3         \* chunks in the inspected prefix
MaxAttempt == 3         \* the displayed attempt number saturates here
MaxBitrate == 40000000  \* largest bitrate the loop may request

NoArg == -1             \* an option that was not given (None)

TargetSizes == {1, 2}                       \* MiB
ToleranceArgs == {NoArg, 0, 25}
Durations == {2, 1000, 9000}                \* seconds
SourceSizes == {1048576, 6291456}           \* bytes of the working input
FrameRateFractions == {<<30000, 1001>>, <<30, 1>>, <<60, 1>>}
Resolutions == {<<1920, 1080>>, <<1080, 1920>>, <<3840, 1080>>, <<160, 120>>}
AudioProbeOutputs == {"", "6000", "96000"}  \* ffprobe's bit_rate line
HeadChunks == {"moov", "mdat", "x"}         \* a marker or one other byte

----------------------------------------------------------------------------
(* Arithmetic helpers *)

\* the element of a one-element set
Only(S) == CHOOSE x \in S : TRUE

RECURSIVE GCD(_, _)
\* Euclid; the pair is bound to its value before the recursive call so
\* that each level is evaluated once
GCD(a, b) ==
    IF b = 0 THEN a
    ELSE Only({GCD(p[1], p[2]) : p \in {<<b, a % b>>}})

Abs(x) == IF x < 0 THEN -x ELSE x

\* the rational n/d in lowest terms, d > 0
Rat(n, d) ==
    Only({<<p[1] \div p[3], p[2] \div p[3]>> :
             p \in {<<q[1], q[2], GCD(Abs(q[1]), q[2])>> : q \in {<<n, d>>}}})

RatLess(a, b) == a[1] * b[2] < b[1] * a[2]

\* Python round(): nearest integer, ties to even
RoundHalfEven(n, d) ==
    LET q == n \div d
        r == n % d
    IN  IF 2 * r < d THEN q
        ELSE IF 2 * r > d THEN q + 1
        ELSE IF q % 2 = 0 THEN q ELSE q + 1

\* round(a * b) for rationals a, b with a >= 0; the product is split so
\* that intermediate values stay small
RoundProduct(a, b) ==
    LET D == a[2] * b[2]
        k == a[1] \div D
        r == a[1] % D
        whole == k * b[1] + ((r * b[1]) \div D)
        rest == (r * b[1]) % D
    IN  IF 2 * rest < D THEN whole
        ELSE IF 2 * rest > D THEN whole + 1
        ELSE IF whole % 2 = 0 THEN whole ELSE whole + 1

----------------------------------------------------------------------------
(* Pure functions of the script *)

\* variant: the resolutions of the 512 and 276 Kbps entries exchanged
bitrateResMap30Swapped ==
    << <<12000, 3840, 2160>>, <<6000, 2560, 1440>>, <<1800, 1920, 1080>>,
       <<1024, 1280, 720>>, <<512, 640, 360>>, <<276, 640, 480>>,
       <<150, 320, 240>>, <<0, 192, 144>> >>

\* bitrateResMap30 / bitrateResMap60 in iteration (insertion) order:
\* <<lower bound in Kbps, preset width, preset height>>
bitrateResMap30 ==
    << <<12000, 3840, 2160>>, <<6000, 2560, 1440>>, <<1800, 1920, 1080>>,
       <<1024, 1280, 720>>, <<512, 640, 480>>, <<276, 640, 360>>,
       <<150, 320, 240>>, <<0, 192, 144>> >>

bitrateResMap60 ==
    << <<18000, 3840, 2160>>, <<9000, 2560, 1440>>, <<3000, 1920, 1080>>,
       <<1800, 1280, 720>>, <<750, 640, 480>>, <<276, 640, 360>>,
       <<150, 320, 240>>, <<0, 192, 144>> >>

\* variant: the map without its last entry (lower bound 0)
get_res_preset_no_floor(bitrate, sourceWidth, sourceHeight, fps) ==
    LET sourcePixels == sourceWidth * sourceHeight
        bitrateResMap == IF fps <= 30 THEN bitrateResMap30 ELSE bitrateResMap60
        fits(i) == /\ bitrate >= 1000 * bitrateResMap[i][1]
                   /\ sourcePixels >= bitrateResMap[i][2] * bitrateResMap[i][3]
        hits == {i \in 1..(Len(bitrateResMap) - 1) : fits(i)}
    IN  IF hits = {} THEN -1
        ELSE bitrateResMap[CHOOSE i \in hits : \A j \in hits : i <= j][3]

\* the first entry of the map that the bitrate reaches and the source's
\* pixel count covers; its height, or -1 when there is none
get_res_preset(bitrate, sourceWidth, sourceHeight, fps) ==
    LET sourcePixels == sourceWidth * sourceHeight
        bitrateResMap == IF fps <= 30 THEN bitrateResMap30 ELSE bitrateResMap60
        fits(i) == /\ bitrate >= 1000 * bitrateResMap[i][1]
                   /\ sourcePixels >= bitrateResMap[i][2] * bitrateResMap[i][3]
        hits == {i \in 1..Len(bitrateResMap) : fits(i)}
    IN  IF hits = {} THEN -1
        ELSE bitrateResMap[CHOOSE i \in hits : \A j \in hits : i <= j][3]

\* lines 486-508: the resolution handed to transcode()
ScaledResolution(bitrate, w, h, fps, isPortrait) ==
    LET presetHeight == get_res_preset(bitrate, w, h, fps)
        \* int(((width / scalingFactor + 1) // 2) * 2), scalingFactor = h / presetHeight
        scaledWidth == 2 * ((w * presetHeight + h) \div (2 * h))
    IN  IF presetHeight = -1 THEN [width |-> w, height |-> h]
        ELSE IF isPortrait THEN [width |-> presetHeight, height |-> scaledWidth]
        ELSE [width |-> scaledWidth, height |-> presetHeight]

\* byte length of a chunk of the prefix
ChunkLen(c) == IF c = "x" THEN 1 ELSE 4

RECURSIVE OffsetOf(_, _)
\* byte offset at which chunk i of head starts
OffsetOf(head, i) == IF i = 1 THEN 0 ELSE OffsetOf(head, i - 1) + ChunkLen(head[i - 1])

\* marker in fileHead
Contains(head, marker) == \E i \in 1..Len(head) : head[i] = marker

\* fileHead.index(marker)
IndexOf(head, marker) ==
    LET first == CHOOSE i \in 1..Len(head) :
                     /\ head[i] = marker
                     /\ \A j \in 1..(i - 1) : head[j] # marker
    IN  OffsetOf(head, first)

\* variant: a prefix without moov is always taken as streamable
is_streamable_open(head) ==
    IF ~Contains(head, "moov") THEN TRUE
    ELSE IF ~Contains(head, "mdat") THEN TRUE
    ELSE IndexOf(head, "moov") < IndexOf(head, "mdat")

is_streamable(head) ==
    IF ~Contains(head, "moov") THEN ~Contains(head, "mdat")
    ELSE IF ~Contains(head, "mdat") THEN TRUE
    ELSE IndexOf(head, "moov") < IndexOf(head, "mdat")

\* int(bitrateStr), or 0 on ValueError
ParseAudioBitrate(bitrateStr) ==
    CASE bitrateStr = "6000" -> 6000
      [] bitrateStr = "96000" -> 96000
      [] OTHER -> 0

\* variant: the audio bitrate is subtracted whatever remains
InitialEstimateAlwaysSubtract(targetBytes, duration, audio) ==
    LET total == RoundHalfEven(targetBytes * 8, duration)
    IN  Rat(99 * (total - audio), 100)

\* lines 436-449
InitialEstimate(targetBytes, duration, audio) ==
    LET total == RoundHalfEven(targetBytes * 8, duration)
        video == IF total - audio >= 1000 THEN total - audio ELSE total
    IN  Rat(99 * video, 100)

\* factor or 1
FactorOr1(f) == IF f[1] = 0 THEN <<1, 1>> ELSE f

\* variant: the tolerance is divided by 10 instead of 100
ContinueLoopTenth(f, tol) ==
    \/ RatLess(<<10 + tol, 10>>, f)
    \/ RatLess(f, <<1, 1>>)

\* the while condition, line 477
ContinueLoop(f, tol) ==
    \/ RatLess(<<100 + tol, 100>>, f)
    \/ RatLess(f, <<1, 1>>)

\* (100 / targetSizeBytes) * afterSizeBytes
PercentOfTarget(targetBytes, afterBytes) ==
    LET r == Rat(afterBytes, targetBytes) IN Rat(100 * r[1], r[2])

\* variant: the overshoot correction is added instead of subtracted
NewFactorAdded(targetBytes, afterBytes) ==
    LET r == Rat(targetBytes, afterBytes)
    IN  IF afterBytes > targetBytes
        THEN Rat(20 * r[1] + r[2], 20 * r[2])
        ELSE r

\* lines 527-533
NewFactor(targetBytes, afterBytes) ==
    LET percentOfTarget == PercentOfTarget(targetBytes, afterBytes)
        plain == Rat(100 * percentOfTarget[2], percentOfTarget[1])
    IN  IF RatLess(<<100, 1>>, percentOfTarget)
        THEN Rat(20 * plain[1] - plain[2], 20 * plain[2])
        ELSE plain

----------------------------------------------------------------------------
(* The environment *)

\* Size behaviours of the two-pass encoder, in units of 16 KiB: a fixed
\* overhead plus pct percent of the requested payload, plus the level of
\* the highest stair <<payload reached, units>> the payload has reached
\* (an encoder whose rate control snaps to discrete quality levels). With
\* pct 0 the size does not depend on the video bitrate (a file dominated
\* by its audio, which is always encoded at the same rate).
Encoders ==
    { [overhead |-> 1, pct |-> 100, stairs |-> <<>>],
      [overhead |-> 1280, pct |-> 0, stairs |-> <<>>],
      [overhead |-> 4, pct |-> 130, stairs |-> <<>>],
      [overhead |-> 8, pct |-> 50, stairs |-> <<>>],
      [overhead |-> 200, pct |-> 100, stairs |-> <<>>],
      [overhead |-> 0, pct |-> 0,
       stairs |-> << <<0, 48>>, <<40, 80>>, <<60, 96>>, <<100, 160>> >>] }

\* os.stat(fileOutput).st_size after transcode() at this bitrate
EncSize(e, bitrate, duration) ==
    LET payload == (bitrate \div 131072) * duration
                   + ((bitrate % 131072) * duration) \div 131072
        reached == {i \in 1..Len(e.stairs) : payload >= e.stairs[i][1]}
        level == IF reached = {} THEN 0
                 ELSE e.stairs[CHOOSE i \in reached : \A j \in reached : j <= i][2]
    IN  16384 * (e.overhead + (payload * e.pct) \div 100 + level)

\* prefixes of at most MaxHeadLen chunks
Heads == UNION {[1..n -> HeadChunks] : n \in 0..MaxHeadLen}

NoEncode == [bitrate |-> 0, width |-> 0, height |-> 0, fpsFilter |-> ""]

----------------------------------------------------------------------------
(* The script *)

Running == pc \notin {"done", "exited", "crashed"}

\* an uncaught exception: traceback, status 1, nothing is cleaned up
Crash ==
    /\ pc' = "crashed"
    /\ exitStatus' = 1
    /\ exitMessage' = "Traceback"

\* variant: sys.exit() without a message, status 0
SysExitZero(message) ==
    /\ pc' = "exited"
    /\ exitStatus' = 0
    /\ exitMessage' = message

\* sys.exit(message): status 1
SysExit(message) ==
    /\ pc' = "exited"
    /\ exitStatus' = 1
    /\ exitMessage' = message

\* args.tolerance or 10: None and 0 are both falsy
ToleranceOr10(arg) == IF arg = NoArg \/ arg = 0 THEN 10 ELSE arg

\* lines 369-386: the state after argument parsing
Init ==
    /\ pc = "get_duration"
    /\ exitStatus = -1
    /\ exitMessage = ""
    /\ argTolerance \in ToleranceArgs
    /\ argKeepFramerate \in BOOLEAN
    /\ tolerance = ToleranceOr10(argTolerance)
    /\ targetSizeBytes \in {t * 1024 * 1024 : t \in TargetSizes}
    /\ durationSeconds = 0
    /\ fileHead = <<>>
    /\ isInputStreamable = TRUE
    /\ streamableExists = FALSE
    /\ beforeSizeBytes = -1        \* not measured yet
    /\ outputFile = "absent"
    /\ encoderInvoked = FALSE
    /\ audioBitrate = 0
    /\ targetVideoBitrate = <<0, 1>>
    /\ framerate = 0
    /\ keepFramerate = FALSE
    /\ targetFramerate = 0
    /\ width = 0
    /\ height = 0
    /\ portrait = FALSE
    /\ factor = <<0, 1>>
    /\ attempt = 0
    /\ encArgs = NoEncode
    /\ afterSizeBytes = 0
    /\ enc \in Encoders

\* line 387
GetDuration ==
    /\ pc = "get_duration"
    /\ \E d \in Durations : durationSeconds' = d
    /\ pc' = "is_streamable"
    /\ UNCHANGED <<exitStatus, exitMessage, argTolerance, argKeepFramerate,
                   tolerance, targetSizeBytes, fileHead, isInputStreamable,
                   streamableExists, beforeSizeBytes, outputFile,
                   encoderInvoked, audioBitrate, targetVideoBitrate, framerate,
                   keepFramerate, targetFramerate, width, height, portrait,
                   factor, attempt, encArgs, afterSizeBytes, enc>>

\* line 387: ffprobe fails or prints no number
GetDurationFail ==
    /\ pc = "get_duration"
    /\ Crash
    /\ UNCHANGED <<argTolerance, argKeepFramerate,
                   tolerance, targetSizeBytes, durationSeconds, fileHead,
                   isInputStreamable,
                   streamableExists, beforeSizeBytes, outputFile,
                   encoderInvoked, audioBitrate, targetVideoBitrate, framerate,
                   keepFramerate, targetFramerate, width, height, portrait,
                   factor, attempt, encArgs, afterSizeBytes, enc>>

\* line 390
IsStreamable ==
    /\ pc = "is_streamable"
    /\ \E head \in Heads :
          /\ fileHead' = head
          /\ isInputStreamable' = is_streamable(head)
    /\ pc' = "make_streamable"
    /\ UNCHANGED <<exitStatus, exitMessage, argTolerance, argKeepFramerate,
                   tolerance, targetSizeBytes, durationSeconds,
                   streamableExists, beforeSizeBytes, outputFile,
                   encoderInvoked, audioBitrate, targetVideoBitrate, framerate,
                   keepFramerate, targetFramerate, width, height, portrait,
                   factor, attempt, encArgs, afterSizeBytes, enc>>

\* line 197: head fails
IsStreamableFail ==
    /\ pc = "is_streamable"
    /\ Crash
    /\ UNCHANGED <<argTolerance, argKeepFramerate,
                   tolerance, targetSizeBytes, durationSeconds, fileHead,
                   isInputStreamable,
                   streamableExists, beforeSizeBytes, outputFile,
                   encoderInvoked, audioBitrate, targetVideoBitrate, framerate,
                   keepFramerate, targetFramerate, width, height, portrait,
                   factor, attempt, encArgs, afterSizeBytes, enc>>

\* lines 393-400: qt-faststart writes the temporary copy (its exit status
\* is not checked, so the copy may be missing afterwards); the prefix read
\* by is_streamable was local to it
MakeStreamable ==
    /\ pc = "make_streamable"
    /\ IF isInputStreamable
       THEN streamableExists' = FALSE
       ELSE streamableExists' \in BOOLEAN
    /\ fileHead' = <<>>
    /\ pc' = "size_guard"
    /\ UNCHANGED <<exitStatus, exitMessage, argTolerance, argKeepFramerate,
                   tolerance, targetSizeBytes, durationSeconds,
                   isInputStreamable, beforeSizeBytes, outputFile,
                   encoderInvoked, audioBitrate, targetVideoBitrate, framerate,
                   keepFramerate, targetFramerate, width, height, portrait,
                   factor, attempt, encArgs, afterSizeBytes, enc>>

\* variant: a source of exactly the target size is compressed anyway
MeetsTargetStrict(sizeBytes, targetBytes) == sizeBytes < targetBytes

\* line 406
MeetsTarget(sizeBytes, targetBytes) == sizeBytes <= targetBytes

\* lines 404-409: the working input is larger than the target
SizeGuardPass ==
    /\ pc = "size_guard"
    /\ isInputStreamable \/ streamableExists
    /\ \E size \in SourceSizes :
          /\ ~MeetsTarget(size, targetSizeBytes)
          /\ beforeSizeBytes' = size
    /\ pc' = "estimate"
    /\ UNCHANGED <<exitStatus, exitMessage, argTolerance, argKeepFramerate,
                   tolerance, targetSizeBytes, durationSeconds, fileHead,
                   isInputStreamable, streamableExists, outputFile,
                   encoderInvoked, audioBitrate, targetVideoBitrate, framerate,
                   keepFramerate, targetFramerate, width, height, portrait,
                   factor, attempt, encArgs, afterSizeBytes, enc>>

\* lines 404-407: the working input already meets the target
SizeGuardExit ==
    /\ pc = "size_guard"
    /\ isInputStreamable \/ streamableExists
    /\ \E size \in SourceSizes :
          /\ MeetsTarget(size, targetSizeBytes)
          /\ beforeSizeBytes' = size
    /\ SysExit("File already meets the target size.")
    /\ UNCHANGED <<argTolerance, argKeepFramerate,
                   tolerance, targetSizeBytes, durationSeconds, fileHead,
                   isInputStreamable, streamableExists, outputFile,
                   encoderInvoked, audioBitrate, targetVideoBitrate, framerate,
                   keepFramerate, targetFramerate, width, height, portrait,
                   factor, attempt, encArgs, afterSizeBytes, enc>>

\* line 404: os.stat raises, the temporary copy was never written
SizeGuardFail ==
    /\ pc = "size_guard"
    /\ ~isInputStreamable /\ ~streamableExists
    /\ Crash
    /\ UNCHANGED <<argTolerance, argKeepFramerate,
                   tolerance, targetSizeBytes, durationSeconds, fileHead,
                   isInputStreamable, streamableExists, beforeSizeBytes,
                   outputFile,
                   encoderInvoked, audioBitrate, targetVideoBitrate, framerate,
                   keepFramerate, targetFramerate, width, height, portrait,
                   factor, attempt, encArgs, afterSizeBytes, enc>>

\* lines 436-449: the audio track is re-encoded into fileOutput, its
\* bitrate is read back and the first estimate is computed
Estimate ==
    /\ pc = "estimate"
    /\ \E bitrateStr \in AudioProbeOutputs :
          /\ audioBitrate' = ParseAudioBitrate(bitrateStr)
          /\ targetVideoBitrate' =
                 InitialEstimate(targetSizeBytes, durationSeconds,
                                 ParseAudioBitrate(bitrateStr))
    /\ encoderInvoked' = TRUE
    /\ outputFile' = "audio"
    /\ pc' = "probe_video"
    /\ UNCHANGED <<exitStatus, exitMessage, argTolerance, argKeepFramerate,
                   tolerance, targetSizeBytes, durationSeconds, fileHead,
                   isInputStreamable, streamableExists, beforeSizeBytes,
                   framerate,
                   keepFramerate, targetFramerate, width, height, portrait,
                   factor, attempt, encArgs, afterSizeBytes, enc>>

\* lines 262, 275: the audio re-encode or its ffprobe exits non-zero
EstimateFail ==
    /\ pc = "estimate"
    /\ encoderInvoked' = TRUE
    /\ outputFile' \in {"absent", "audio"}
    /\ Crash
    /\ UNCHANGED <<argTolerance, argKeepFramerate,
                   tolerance, targetSizeBytes, durationSeconds, fileHead,
                   isInputStreamable, streamableExists, beforeSizeBytes,
                   audioBitrate, targetVideoBitrate, framerate,
                   keepFramerate, targetFramerate, width, height, portrait,
                   factor, attempt, encArgs, afterSizeBytes, enc>>

\* round(fps_numerator / fps_denominator), lines 176-181
get_framerate(fraction) == RoundHalfEven(fraction[1], fraction[2])

\* variant: a source of exactly 30 fps is not kept
KeepFramerateBelow30(fps, flag) == fps < 30 \/ flag

\* line 463
KeepFramerate(fps, flag) == fps <= 30 \/ flag

\* line 465
TargetFramerate(fps, keep) == IF keep THEN fps ELSE 30

\* line 104
FpsFilter(keep) == IF keep THEN "" ELSE ",fps=30"

\* lines 461-475
ProbeVideo ==
    /\ pc = "probe_video"
    /\ \E fraction \in FrameRateFractions :
          /\ framerate' = get_framerate(fraction)
          /\ keepFramerate' = KeepFramerate(get_framerate(fraction), argKeepFramerate)
          /\ targetFramerate' =
                 TargetFramerate(get_framerate(fraction),
                                 KeepFramerate(get_framerate(fraction), argKeepFramerate))
    /\ \E res \in Resolutions :
          /\ width' = res[1]
          /\ height' = res[2]
          /\ portrait' = (res[1] < res[2])
    /\ factor' = <<0, 1>>
    /\ attempt' = 0
    /\ pc' = "loop"
    /\ UNCHANGED <<exitStatus, exitMessage, argTolerance, argKeepFramerate,
                   tolerance, targetSizeBytes, durationSeconds, fileHead,
                   isInputStreamable, streamableExists, beforeSizeBytes,
                   outputFile, encoderInvoked, audioBitrate,
                   targetVideoBitrate, encArgs, afterSizeBytes, enc>>

\* lines 173-180, 238-242: ffprobe fails or there is no video stream
ProbeVideoFail ==
    /\ pc = "probe_video"
    /\ Crash
    /\ UNCHANGED <<argTolerance, argKeepFramerate,
                   tolerance, targetSizeBytes, durationSeconds, fileHead,
                   isInputStreamable, streamableExists, beforeSizeBytes,
                   outputFile, encoderInvoked, audioBitrate,
                   targetVideoBitrate, framerate,
                   keepFramerate, targetFramerate, width, height, portrait,
                   factor, attempt, encArgs, afterSizeBytes, enc>>

\* line 479
NextBitrate == RoundProduct(targetVideoBitrate, FactorOr1(factor))

\* line 478; the number is only displayed
NextAttempt == IF attempt < MaxAttempt THEN attempt + 1 ELSE attempt

BelowFloorHundred(bitrate) == bitrate < 100

\* line 481
BelowFloor(bitrate) == bitrate < 1000

\* lines 477-540: one iteration that encodes and measures
Attempt ==
    /\ pc = "loop"
    /\ ContinueLoop(factor, tolerance)
    /\ \E bitrate \in {NextBitrate} :
          /\ ~BelowFloor(bitrate)
          /\ bitrate <= MaxBitrate
          /\ targetVideoBitrate' = <<bitrate, 1>>
          /\ \E res \in {ScaledResolution(bitrate, width, height,
                                            targetFramerate, portrait)} :
                encArgs' = [bitrate |-> bitrate, width |-> res.width,
                            height |-> res.height,
                            fpsFilter |-> FpsFilter(keepFramerate)]
          /\ \E size \in {EncSize(enc, bitrate, durationSeconds)} :
                /\ afterSizeBytes' = size
                /\ factor' = NewFactor(targetSizeBytes, size)
    /\ attempt' = NextAttempt
    /\ encoderInvoked' = TRUE
    /\ outputFile' = "video"
    /\ UNCHANGED <<pc, exitStatus, exitMessage, argTolerance,
                   argKeepFramerate,
                   tolerance, targetSizeBytes, durationSeconds, fileHead,
                   isInputStreamable, streamableExists, beforeSizeBytes,
                   audioBitrate, framerate,
                   keepFramerate, targetFramerate, width, height, portrait,
                   enc>>

\* lines 477-484: the rescaled bitrate is below the floor
AbortFloor ==
    /\ pc = "loop"
    /\ ContinueLoop(factor, tolerance)
    /\ \E bitrate \in {NextBitrate} :
          /\ BelowFloor(bitrate)
          /\ targetVideoBitrate' = <<bitrate, 1>>
    /\ attempt' = NextAttempt
    /\ SysExit("Bitrate got too low (<1000bps); aborting")
    /\ UNCHANGED <<argTolerance, argKeepFramerate,
                   tolerance, targetSizeBytes, durationSeconds, fileHead,
                   isInputStreamable, streamableExists, beforeSizeBytes,
                   outputFile, encoderInvoked, audioBitrate, framerate,
                   keepFramerate, targetFramerate, width, height, portrait,
                   factor, encArgs, afterSizeBytes, enc>>

\* lines 517-526: a pass of the encoder exits non-zero
EncodeFail ==
    /\ pc = "loop"
    /\ ContinueLoop(factor, tolerance)
    /\ \E bitrate \in {NextBitrate} :
          /\ ~BelowFloor(bitrate)
          /\ bitrate <= MaxBitrate
          /\ targetVideoBitrate' = <<bitrate, 1>>
          /\ \E res \in {ScaledResolution(bitrate, width, height,
                                            targetFramerate, portrait)} :
                encArgs' = [bitrate |-> bitrate, width |-> res.width,
                            height |-> res.height,
                            fpsFilter |-> FpsFilter(keepFramerate)]
    /\ attempt' = NextAttempt
    /\ encoderInvoked' = TRUE
    /\ outputFile' \in {outputFile, "partial"}
    /\ Crash
    /\ UNCHANGED <<argTolerance, argKeepFramerate,
                   tolerance, targetSizeBytes, durationSeconds, fileHead,
                   isInputStreamable, streamableExists, beforeSizeBytes,
                   audioBitrate, framerate,
                   keepFramerate, targetFramerate, width, height, portrait,
                   factor, afterSizeBytes, enc>>

\* lines 542-548: the loop condition is false; clean up and end
Finish ==
    /\ pc = "loop"
    /\ ~ContinueLoop(factor, tolerance)
    /\ streamableExists' = FALSE
    /\ pc' = "done"
    /\ exitStatus' = 0
    /\ UNCHANGED <<exitMessage, argTolerance, argKeepFramerate,
                   tolerance, targetSizeBytes, durationSeconds, fileHead,
                   isInputStreamable, beforeSizeBytes,
                   outputFile, encoderInvoked, audioBitrate,
                   targetVideoBitrate, framerate,
                   keepFramerate, targetFramerate, width, height, portrait,
                   factor, attempt, encArgs, afterSizeBytes, enc>>

Next ==
    \/ GetDuration
    \/ GetDurationFail
    \/ IsStreamable
    \/ IsStreamableFail
    \/ MakeStreamable
    \/ SizeGuardPass
    \/ SizeGuardExit
    \/ SizeGuardFail
    \/ Estimate
    \/ EstimateFail
    \/ ProbeVideo
    \/ ProbeVideoFail
    \/ Attempt
    \/ AbortFloor
    \/ EncodeFail
    \/ Finish

Spec == Init /\ [][Next]_vars

\* the interpreter always executes the next statement of the script
FairSpec == Spec /\ WF_vars(Next)

----------------------------------------------------------------------------
(* Sanity of the model *)

TypeOK ==
    /\ pc \in {"get_duration", "is_streamable", "make_streamable",
                "size_guard", "estimate", "probe_video", "loop",
                "done", "exited", "crashed"}
    /\ exitStatus \in {-1, 0, 1}
    /\ factor[2] > 0
    /\ targetVideoBitrate[2] > 0
    /\ attempt \in 0..MaxAttempt

\* the bound on the bitrate never stops an iteration
BitrateBoundNotReached ==
    (pc = "loop" /\ ContinueLoop(factor, tolerance)) => NextBitrate <= MaxBitrate

----------------------------------------------------------------------------
(* Properties *)

Converged == pc = "done"
Aborted == pc = "exited" /\ exitMessage = "Bitrate got too low (<1000bps); aborting"
AlreadyMet == pc = "exited" /\ exitMessage = "File already meets the target size."
Encoded == encArgs # NoEncode

\* C1: with a deterministic encoder the attempt loop always terminates:
\* every run eventually leaves the loop, converged or aborted (or stopped
\* by a failing tool).
C1_LoopTerminates == <>(~Running)

\* C2 as stated: on convergence the last output lies in
\* [targetSizeBytes, targetSizeBytes * (1 + tolerance/100)].
C2_BandAboveTarget ==
    Converged =>
        /\ targetSizeBytes <= afterSizeBytes
        /\ afterSizeBytes * 100 <= targetSizeBytes * (100 + tolerance)

\* C2 amended: on convergence the last output lies in
\* [targetSizeBytes / (1 + tolerance/100), targetSizeBytes]: at or below
\* the target and at most the tolerance below it.
C2_BandBelowTarget ==
    Converged =>
        /\ afterSizeBytes <= targetSizeBytes
        /\ afterSizeBytes * (100 + tolerance) >= targetSizeBytes * 100

C2_Witness ==
    /\ Converged
    /\ afterSizeBytes < targetSizeBytes
    /\ attempt >= 2

\* C3: a converged run's output never exceeds the target, and an attempt
\* whose output is larger than the target leaves factor < 1, so that the
\* loop goes on.
C3_NeverAboveTarget ==
    /\ Converged => afterSizeBytes <= targetSizeBytes
    /\ (pc = "loop" /\ Encoded /\ afterSizeBytes > targetSizeBytes) =>
           (RatLess(factor, <<1, 1>>) /\ ContinueLoop(factor, tolerance))

C3_Witness ==
    /\ pc = "loop"
    /\ Encoded
    /\ afterSizeBytes > targetSizeBytes
    /\ RatLess(<<9, 10>>, factor)

\* C4: once the process has ended, the temporary streamable copy is gone,
\* whatever the exit path.
C4_TempCopyDeleted == ~Running => ~streamableExists

\* C5: when the working input is not larger than the target, the run ends
\* with the early-exit message and the encoder is never started.
C5_NoEncodeWhenSmall ==
    (beforeSizeBytes >= 0 /\ beforeSizeBytes <= targetSizeBytes) =>
        /\ AlreadyMet
        /\ ~encoderInvoked
        /\ ~Encoded
        /\ outputFile = "absent"

C5_Witness ==
    /\ beforeSizeBytes = targetSizeBytes
    /\ pc = "exited"

\* C6: the early exit, the floor abort and every tool failure end with a
\* non-zero status; status zero is only given after the loop converged.
C6_ExitStatus ==
    /\ (AlreadyMet \/ Aborted \/ pc = "crashed") => exitStatus > 0
    /\ ~Running => exitStatus # -1
    /\ exitStatus = 0 =>
           (pc = "done" /\ Encoded /\ ~ContinueLoop(factor, tolerance))

C6_Witness == Aborted /\ exitStatus = 1 /\ Encoded

\* C7: the resolution passed to the encoder is never larger than the
\* source's in either dimension.
C7_NeverUpscaled ==
    Encoded => (encArgs.width <= width /\ encArgs.height <= height)

\* C8: for a portrait source with a preset selected, the encoder gets a
\* portrait resolution (height >= width); 1080x1920 at the 1080p preset
\* is encoded at 1080x1920.
C8_PortraitKept ==
    (Encoded /\ portrait
       /\ get_res_preset(encArgs.bitrate, width, height, targetFramerate) # -1) =>
        /\ encArgs.height >= encArgs.width
        /\ (width = 1080 /\ height = 1920
              /\ get_res_preset(encArgs.bitrate, width, height, targetFramerate) = 1080) =>
               (encArgs.width = 1080 /\ encArgs.height = 1920)

\* an mdat marker with no moov marker anywhere before it
MdatBeforeAnyMoov(head) ==
    \E i \in 1..Len(head) :
        /\ head[i] = "mdat"
        /\ \A j \in 1..i : head[j] # "moov"

\* both markers occur and the first mdat precedes the first moov
BothAndMdatFirst(head) ==
    /\ MdatBeforeAnyMoov(head)
    /\ \E i \in 1..Len(head) : head[i] = "moov"

\* C9 as stated: is_streamable returns false only when both markers occur
\* and the first mdat precedes the first moov; otherwise true.
C9_FailsOpen ==
    pc = "make_streamable" =>
        (isInputStreamable <=> ~BothAndMdatFirst(fileHead))

\* C9 amended: is_streamable returns false exactly when mdat occurs with
\* no moov before it (moov later in the prefix or not in it at all).
C9_FalseIffMdatFirst ==
    pc = "make_streamable" =>
        (isInputStreamable <=> ~MdatBeforeAnyMoov(fileHead))

C9_Witness ==
    /\ pc = "make_streamable"
    /\ fileHead = <<"x", "mdat">>
    /\ ~isInputStreamable

ExpectedTargetFramerate ==
    IF framerate <= 30 \/ argKeepFramerate THEN framerate ELSE 30

\* C10: the target frame rate is the source's when that is <= 30 or
\* --keep-framerate is given and 30 otherwise, it does not change between
\* attempts, and the encoder gets the fps=30 filter exactly when the
\* target rate differs from the source rate.
C10_TargetFramerate ==
    /\ [](pc = "loop" => targetFramerate = ExpectedTargetFramerate)
    /\ [](Encoded => (encArgs.fpsFilter = ",fps=30" <=> targetFramerate # framerate))
    /\ [][pc = "loop" => (targetFramerate' = targetFramerate /\ framerate' = framerate)]_vars

C10_Witness ==
    /\ pc = "loop"
    /\ attempt >= 2
    /\ framerate = 60
    /\ ~argKeepFramerate
    /\ targetFramerate = 30
    /\ encArgs.fpsFilter = ",fps=30"

\* C11: the encoder is never started with a video bitrate below 1000 bps;
\* an iteration whose rescaled bitrate is below 1000 ends the run as
\* aborted without choosing a resolution or starting the encoder, and an
\* aborted run makes no further attempt.
C11_FloorBeforeEncode ==
    /\ [](Encoded => encArgs.bitrate >= 1000)
    /\ [][(pc = "loop" /\ ContinueLoop(factor, tolerance) /\ NextBitrate < 1000) =>
            /\ Aborted'
            /\ encArgs' = encArgs
            /\ encoderInvoked' = encoderInvoked
            /\ outputFile' = outputFile
            /\ afterSizeBytes' = afterSizeBytes]_vars
    /\ [][~Aborted]_vars

C11_Witness ==
    /\ Aborted
    /\ attempt >= 2
    /\ targetVideoBitrate[1] < 1000
    /\ encArgs.bitrate >= 1000
    /\ encArgs.bitrate < 2000

\* bitrates at and just below every lower bound of both maps
BitrateSamples ==
    {b \in UNION {{1000 * m[i][1] - 1, 1000 * m[i][1]} :
                     m \in {bitrateResMap30, bitrateResMap60}, i \in DOMAIN bitrateResMap30} : b >= 0}

\* C12 as stated: for every bitrate >= 0, source resolution and frame
\* rate get_res_preset selects a preset; it never returns -1.
C12_AlwaysPreset ==
    pc = "loop" =>
        \A b \in BitrateSamples \cup {encArgs.bitrate} :
            get_res_preset(b, width, height, targetFramerate) # -1

\* C12 amended: get_res_preset returns -1 exactly when the source has
\* fewer pixels than the smallest preset (192x144), whatever the bitrate
\* and frame rate, and the encoder then gets the source resolution.
C12_PresetUnlessTiny ==
    /\ pc = "loop" =>
           \A b \in BitrateSamples \cup {encArgs.bitrate} :
               (get_res_preset(b, width, height, targetFramerate) = -1
                  <=> width * height < 192 * 144)
    /\ (Encoded /\ get_res_preset(encArgs.bitrate, width, height,
                                    targetFramerate) = -1) =>
           (encArgs.width = width /\ encArgs.height = height)

C12_Witness ==
    /\ pc = "loop"
    /\ Encoded
    /\ width * height < 192 * 144
    /\ encArgs.width = width
    /\ encArgs.height = height

\* pixel count of the map entry with this height; 0 for -1 (no preset)
PresetPixels(fps, presetHeight) ==
    LET bitrateResMap == IF fps <= 30 THEN bitrateResMap30 ELSE bitrateResMap60
        entries == {i \in 1..Len(bitrateResMap) : bitrateResMap[i][3] = presetHeight}
    IN  IF entries = {} THEN 0
        ELSE Only({bitrateResMap[i][2] * bitrateResMap[i][3] : i \in entries})

\* C13: for a fixed source resolution and frame-rate tier, of two bitrates
\* for which a preset is chosen the lower one never gets a preset with more
\* pixels than the higher one.
C13_PresetMonotonic ==
    pc = "loop" =>
        \A chosen \in {[b \in BitrateSamples \cup {encArgs.bitrate} |->
                           get_res_preset(b, width, height, targetFramerate)]} :
            \A b1, b2 \in DOMAIN chosen :
                (b1 >= b2 /\ chosen[b1] # -1 /\ chosen[b2] # -1) =>
                    PresetPixels(targetFramerate, chosen[b1])
                        >= PresetPixels(targetFramerate, chosen[b2])

C13_Witness ==
    /\ pc = "loop"
    /\ Encoded
    /\ \E b \in BitrateSamples :
          /\ b < encArgs.bitrate
          /\ get_res_preset(b, width, height, targetFramerate) # -1
          /\ PresetPixels(targetFramerate,
                          get_res_preset(b, width, height, targetFramerate))
                < PresetPixels(targetFramerate,
                               get_res_preset(encArgs.bitrate, width, height,
                                              targetFramerate))

\* C14: after an attempt whose output is larger than the target, the
\* next iteration's bitrate is strictly lower than that attempt's, so over
\* consecutive overshoots the bitrate decreases at every step.
C14_OvershootLowersBitrate ==
    [][(pc = "loop" /\ Encoded /\ afterSizeBytes > targetSizeBytes) =>
          targetVideoBitrate'[1] < targetVideoBitrate[1]]_vars

\* C15: when the process has ended, the audio-only scratch file written
\* to measure the audio bitrate no longer exists, and a run that aborted
\* at the bitrate floor before its first encode has left nothing at the
\* final output path.
C15_ScratchRemoved ==
    /\ ~Running => outputFile # "audio"
    /\ (Aborted /\ ~Encoded) => outputFile = "absent"

\* C16: the tolerance the loop uses is the value given with -t for every
\* integer >= 0, also for -t 0 (where only a factor of exactly 1 ends the
\* loop), and it is 10 when -t is not given.
C16_ToleranceAsGiven ==
    /\ pc = "loop" =>
           tolerance = (IF argTolerance = NoArg THEN 10 ELSE argTolerance)
    /\ (Converged /\ argTolerance = 0) => factor = <<1, 1>>

\* round(targetSizeBytes * 8 / durationSeconds)
TotalBitrate == RoundHalfEven(targetSizeBytes * 8, durationSeconds)

\* C17: the first iteration's bitrate is round(0.99 * B), where B is the
\* total bitrate less the audio bitrate when that difference is at least
\* 1000 and the total bitrate otherwise; an unreadable audio bitrate
\* (taken as 0) leaves B the total bitrate and the run goes on.
C17_FirstBitrate ==
    attempt = 1 =>
        /\ targetVideoBitrate =
              <<RoundHalfEven(99 * (IF TotalBitrate - audioBitrate >= 1000
                                    THEN TotalBitrate - audioBitrate
                                    ELSE TotalBitrate), 100), 1>>
        /\ audioBitrate = 0 =>
              targetVideoBitrate = <<RoundHalfEven(99 * TotalBitrate, 100), 1>>
        /\ Encoded => encArgs.bitrate = targetVideoBitrate[1]

C17_Witness ==
    /\ pc = "loop"
    /\ attempt = 1
    /\ Encoded
    /\ audioBitrate > 0
    /\ TotalBitrate - audioBitrate < 1000
    /\ encArgs.bitrate = RoundHalfEven(99 * TotalBitrate, 100)

====
